---------------------------- MODULE Spec2Model ----------------------------
(***************************************************************************)
(* Model of scripts/convert-numbers-to-csv.py: convert_numbers_to_csv      *)
(* opens a Numbers document, takes the first table of the first sheet and  *)
(* writes its rows to a CSV file; __main__ turns the result into the       *)
(* process exit code.                                                      *)
(*                                                                         *)
(* A text is a sequence of one-character strings.  A document is the       *)
(* sequence of its sheets, a sheet the sequence of its tables, a table the *)
(* sequence of its rows, a row the sequence of its cells.                  *)
(***************************************************************************)
EXTENDS Integers, Sequences, FiniteSets

VARIABLES
    doc,       \* contents of the Numbers file at numbers_file
    file,      \* the file at csv_file, as it is on disk: [exists, data]
    pending,   \* text f.write() has taken and f has not passed on (f's chunk)
    buf,       \* bytes f has passed to its buffer and the disk has not got yet
    quota,     \* most characters the disk takes for the file (disk space, file size limit)
    pre,       \* history: the file at csv_file when the script was started
    pc,        \* line the script is at
    sheet,     \* local `sheet`
    table,     \* local `table`
    i,         \* rows of `table` already written by the loop of line 35
    out,       \* what this run has printed (the traceback goes to stderr)
    result,    \* return value of convert_numbers_to_csv
    raised,    \* history: the exceptions raised in this run, in order
    exitcode,  \* exit status of the process, -1 while it runs
    last       \* history: outcome of the previous run, while this run repeats it

vars ==
    <<doc, file, pending, buf, quota, pre, pc, sheet, table, i, out, result, raised,
      exitcode, last>>

(***************************************************************************)
(* Bounds of the model.                                                    *)
(***************************************************************************)
MaxText == 3      \* longest text of a cell
MaxRows == 2      \* most rows of a table
MaxCols == 2      \* most cells of a row
MaxSheets == 2    \* most sheets of a document
MaxQuota == 5     \* largest of the small limits on the size of the output file

(***************************************************************************)
(* Cell values (cell.value, line 38).                                      *)
(***************************************************************************)
None == [kind |-> "none", txt |-> <<>>, num |-> 0]
Txt(s) == [kind |-> "text", txt |-> s, num |-> 0]
Num(n) == [kind |-> "int", txt |-> <<>>, num |-> n]
Bool(b) == [kind |-> "bool", txt |-> <<>>, num |-> IF b THEN 1 ELSE 0]

Chars == {"a", ",", "\"", "\n", "\r"}

RECURSIVE SeqsUpTo(_, _)
SeqsUpTo(S, n) ==
    IF n = 0 THEN {<<>>}
    ELSE LET shorter == SeqsUpTo(S, n - 1)
         IN  shorter \cup {Append(s, x) : s \in {t \in shorter : Len(t) = n - 1}, x \in S}

Texts == SeqsUpTo(Chars, MaxText)
IntSamples == {0, 7, -12, 305}
CellValues ==
    {None} \cup {Txt(s) : s \in Texts} \cup {Num(n) : n \in IntSamples}
           \cup {Bool(b) : b \in BOOLEAN}

(***************************************************************************)
(* str(value), line 42.                                                    *)
(***************************************************************************)
Digit(d) == <<"0", "1", "2", "3", "4", "5", "6", "7", "8", "9">>[d + 1]

RECURSIVE NatStr(_)
NatStr(n) ==
    IF n < 10 THEN <<Digit(n)>> ELSE Append(NatStr(n \div 10), Digit(n % 10))

IntStr(n) == IF n < 0 THEN <<"-">> \o NatStr(-n) ELSE NatStr(n)

Str(value) ==
    CASE value.kind = "text" -> value.txt
      [] value.kind = "int"  -> IntStr(value.num)
      [] value.kind = "bool" -> IF value.num = 1 THEN <<"T", "r", "u", "e">>
                                ELSE <<"F", "a", "l", "s", "e">>
      [] value.kind = "none" -> <<"N", "o", "n", "e">>

\* lines 38-42: None becomes '', everything else its str()
\* (faulty variant: the test of line 40 left out)
CellTextNoNoneCheck(cell) == Str(cell)
CellText(cell) == Str(IF cell = None THEN Txt(<<>>) ELSE cell)

\* lines 36-42: row_data
\* (faulty variant: the cells appended in reverse order)
RowDataReversed(row) == [c \in 1..Len(row) |-> CellText(row[Len(row) + 1 - c])]
RowData(row) == [c \in 1..Len(row) |-> CellText(row[c])]

(***************************************************************************)
(* csv.writer(f).writerow, lines 32 and 43: the default "excel" dialect    *)
(* (delimiter ',', quotechar '"', doublequote, QUOTE_MINIMAL,              *)
(* lineterminator '\r\n').                                                 *)
(***************************************************************************)
NeedsQuote(s) == \E k \in 1..Len(s) : s[k] \in {",", "\"", "\r", "\n"}

RECURSIVE DoubleQuotes(_)
DoubleQuotes(s) ==
    IF s = <<>> THEN <<>>
    ELSE (IF Head(s) = "\"" THEN <<"\"", "\"">> ELSE <<Head(s)>>)
         \o DoubleQuotes(Tail(s))

Quoted(s) == <<"\"">> \o DoubleQuotes(s) \o <<"\"">>

\* (faulty variant: embedded quote characters not doubled)
WriteFieldNoEscape(s) == IF NeedsQuote(s) THEN <<"\"">> \o s \o <<"\"">> ELSE s
WriteField(s) == IF NeedsQuote(s) THEN Quoted(s) ELSE s

RECURSIVE JoinFields(_)
JoinFields(fields) ==
    IF fields = <<>> THEN <<>>
    ELSE IF Len(fields) = 1 THEN WriteField(fields[1])
    ELSE WriteField(fields[1]) \o <<",">> \o JoinFields(Tail(fields))

\* a record made of one empty field is written as "" so that it is not
\* mistaken for a record without fields
WriteRow(fields) ==
    (IF fields = << <<>> >> THEN <<"\"", "\"">> ELSE JoinFields(fields))
    \o <<"\r", "\n">>

(***************************************************************************)
(* The standard CSV reader (csv.reader, "excel" dialect, on a file opened  *)
(* with newline='') that the round-trip properties read the output with.   *)
(* It is a character automaton; a line of the file ends after "\n", after  *)
(* "\r\n", after a lone "\r" and at the end of the data, and the end of a  *)
(* line is an event (EOL) of its own.                                      *)
(***************************************************************************)
ParserStart == [st |-> "START_RECORD", field |-> <<>>, fields |-> <<>>, recs |-> <<>>]

SaveField(p) == [p EXCEPT !.fields = Append(p.fields, p.field), !.field = <<>>]
AddChar(p, c) == [p EXCEPT !.field = Append(p.field, c)]
Goto(p, st) == [p EXCEPT !.st = st]

ParseChar(p, c) ==
    LET nl == c \in {"\n", "\r"}
    IN
    CASE p.st = "START_RECORD" /\ nl -> Goto(p, "EAT_CRNL")
      [] p.st \in {"START_RECORD", "START_FIELD"} /\ ~nl ->
            IF c = "\"" THEN Goto(p, "IN_QUOTED_FIELD")
            ELSE IF c = "," THEN Goto(SaveField(p), "START_FIELD")
            ELSE Goto(AddChar(p, c), "IN_FIELD")
      [] p.st = "START_FIELD" /\ nl -> Goto(SaveField(p), "EAT_CRNL")
      [] p.st = "IN_FIELD" ->
            IF nl THEN Goto(SaveField(p), "EAT_CRNL")
            ELSE IF c = "," THEN Goto(SaveField(p), "START_FIELD")
            ELSE AddChar(p, c)
      [] p.st = "IN_QUOTED_FIELD" ->
            IF c = "\"" THEN Goto(p, "QUOTE_IN_QUOTED_FIELD") ELSE AddChar(p, c)
      [] p.st = "QUOTE_IN_QUOTED_FIELD" ->
            IF c = "\"" THEN Goto(AddChar(p, c), "IN_QUOTED_FIELD")
            ELSE IF c = "," THEN Goto(SaveField(p), "START_FIELD")
            ELSE IF nl THEN Goto(SaveField(p), "EAT_CRNL")
            ELSE Goto(AddChar(p, c), "IN_FIELD")
      [] p.st = "EAT_CRNL" -> p

\* the end of a line: a record is complete unless a quoted field is open
ParseEOL(p) ==
    CASE p.st = "START_RECORD" -> [p EXCEPT !.recs = Append(p.recs, <<>>)]
      [] p.st = "IN_QUOTED_FIELD" -> p
      [] p.st = "EAT_CRNL" ->
            [p EXCEPT !.st = "START_RECORD", !.recs = Append(p.recs, p.fields),
                      !.fields = <<>>]
      [] OTHER ->
            LET q == SaveField(p)
            IN  [q EXCEPT !.st = "START_RECORD", !.recs = Append(q.recs, q.fields),
                          !.fields = <<>>]

LineEnds(data, k) ==
    \/ k = Len(data)
    \/ data[k] = "\n"
    \/ data[k] = "\r" /\ data[k + 1] # "\n"

RECURSIVE ParseFrom(_, _, _)
ParseFrom(p, data, k) ==
    IF k > Len(data)
    THEN IF p.st = "IN_QUOTED_FIELD"
         THEN Append(p.recs, Append(p.fields, p.field))
         ELSE p.recs
    ELSE LET q == ParseChar(p, data[k])
         IN  ParseFrom(IF LineEnds(data, k) THEN ParseEOL(q) ELSE q, data, k + 1)

ParseCSV(data) == ParseFrom(ParserStart, data, 1)


(***************************************************************************)
(* The sizes of the file object f that open() of line 31 returns: the text *)
(* layer passes on what it holds from ChunkSize characters on, to a buffer *)
(* of BufferSize bytes (the block size of the file system).                *)
(***************************************************************************)
ChunkSize == 8192
BufferSize == 4096

(***************************************************************************)
(* The inputs: the file at csv_file before the run, and the document.      *)
(***************************************************************************)
NoFile == [exists |-> FALSE, data |-> <<>>]
OldFile == [exists |-> TRUE, data |-> <<"o", "l", "d", "\r", "\n">>]
PreFiles == {NoFile, OldFile}

\* documents that differ in the number and the place of sheets and tables:
\* no sheet, or a first sheet followed by other sheets
TableA == << <<Txt(<<"a">>), None>> >>
TableB == << <<Num(7)>> >>
SheetChoices == {<<>>, <<TableA>>, <<TableA, TableB>>}
OtherSheets == {<<>>, <<TableB>>}
StructDocs ==
    {<<>>} \cup {<<s>> \o others : s \in SheetChoices,
                                  others \in SeqsUpTo(OtherSheets, MaxSheets - 1)}

\* one table of every shape: every number of rows, each of every number of
\* cells, cells with and without a value in turn
ShapeCell(c) == IF c % 2 = 1 THEN Txt(<<"\"", "\n">>) ELSE None

RECURSIVE ShapeRow(_)
ShapeRow(n) == IF n = 0 THEN <<>> ELSE Append(ShapeRow(n - 1), ShapeCell(n))

ShapeTables == SeqsUpTo({ShapeRow(n) : n \in 0..MaxCols}, MaxRows)
ShapeDocs == {<< <<t>> >> : t \in ShapeTables}

\* one row holding every cell value, first, last and alone
ContentRows ==
    {<<v>> : v \in CellValues} \cup {<<v, Txt(<<"a">>)>> : v \in CellValues}
        \cup {<<None, v>> : v \in CellValues}
ContentDocs == {<< << <<row>> >> >> : row \in ContentRows}

Docs == StructDocs \cup ShapeDocs \cup ContentDocs

\* tables with a record as long as a chunk of the text layer of f (ChunkSize
\* characters and the line terminator), before and after a short record, and
\* a table with a record that is larger than the buffer of f and less than a
\* chunk
LongText == [k \in 1..ChunkSize |-> "a"]
MidText == [k \in 1..BufferSize |-> "a"]
LongTables ==
    {<< <<Txt(LongText)>>, <<Txt(<<"a">>)>> >>, << <<Txt(<<"a">>)>>, <<Txt(LongText)>> >>,
     << <<Txt(MidText)>> >>}
LongDocs == {<< <<t>> >> : t \in LongTables}

\* the room the disk has for the output file: no limit, or a number of
\* characters
Unlimited == -1
SmallQuotas == {Unlimited} \cup 0..MaxQuota
\* the limits tried with a long record: none, one that cuts the first write
\* to the disk, and one that the long record alone does not fit in
LongQuotas == {Unlimited, MaxQuota, ChunkSize}
\* the limits tried when the script is run twice: none, and one that cuts
\* the first record
AgainQuotas == {Unlimited, 2}

NoRun ==
    [ran |-> FALSE, first |-> <<>>, unchanged |-> FALSE, pre |-> NoFile,
     raised |-> <<>>, i |-> 0, result |-> "pending", file |-> NoFile]

Start(docs, quotas) ==
    /\ doc \in docs
    /\ file \in PreFiles
    /\ quota \in quotas
    /\ pending = <<>>
    /\ buf = <<>>
    /\ pre = file
    /\ pc = "L13"
    /\ sheet = <<>>
    /\ table = <<>>
    /\ i = 0
    /\ out = <<>>
    /\ result = "pending"
    /\ raised = <<>>
    /\ exitcode = -1
    /\ last = NoRun

Init == Start(Docs, SmallQuotas)

(***************************************************************************)
(* Exceptions.  The code of numbers_parser (lines 13, 16, 22, 35, 38) may  *)
(* raise an exception of any class.  open(), print(), print_exc() and the  *)
(* csv writer may raise an Exception (OSError, UnicodeEncodeError,         *)
(* csv.Error) or be left by the KeyboardInterrupt of a SIGINT, before or   *)
(* after they have done their work.                                        *)
(* An exception raised is recorded as [at, kind, disk]: the line that      *)
(* raised it ("close" for the exit of the with block of line 31), its      *)
(* class with the argument of a SystemExit, and, when it is the failure of *)
(* a write to the disk or an interrupt of open() after the file was        *)
(* created or truncated, the number of characters the file then holds      *)
(* (-1 otherwise).                                                         *)
(***************************************************************************)
NoArg == [type |-> "none", n |-> 0]
IntArg(n) == [type |-> "int", n |-> n]
StrArg == [type |-> "str", n |-> 0]
ExitArgs == {NoArg, IntArg(0), IntArg(3), IntArg(256), StrArg}

Exc(class, arg) == [class |-> class, arg |-> arg]
Exception == Exc("Exception", NoArg)
KeyboardInterrupt == Exc("KeyboardInterrupt", NoArg)
GeneratorExit == Exc("GeneratorExit", NoArg)
SystemExit(arg) == Exc("SystemExit", arg)

Kinds ==
    {Exception, KeyboardInterrupt, GeneratorExit} \cup {SystemExit(a) : a \in ExitArgs}
IOKinds == {Exception, KeyboardInterrupt}

Ev(at, kind) == [at |-> at, kind |-> kind, disk |-> -1]
WriteFailed(at, n) == [at |-> at, kind |-> Exception, disk |-> n]
Interrupted(at, n) == [at |-> at, kind |-> KeyboardInterrupt, disk |-> n]

IsPrefix(s, t) == Len(s) <= Len(t) /\ SubSeq(t, 1, Len(s)) = s

\* line 48: except Exception
Caught(kind) == kind.class = "Exception"

\* print(message) at line `at` (print_exc at line 51): the outcomes
\* [shown, evs].  The message is shown and the call returns; or the call
\* raises with nothing shown; or the message is shown and the call is left
\* by KeyboardInterrupt.
PrintAt(at, message) ==
    {[shown |-> <<message>>, evs |-> <<>>]}
        \cup {[shown |-> <<>>, evs |-> <<Ev(at, kind)>>] : kind \in IOKinds}
        \cup {[shown |-> <<message>>, evs |-> <<Ev(at, KeyboardInterrupt)>>]}

\* evs are raised inside the try block of line 11 by a call that has shown
\* `shown`; the last of them leaves the block.  Lines 48-52 handle it when
\* line 48 matches its class: print (line 49), traceback.print_exc (line
\* 51), return False; these may raise in turn.  Whatever is not handled
\* leaves convert_numbers_to_csv.
Handle(shown, evs) ==
    IF Caught(evs[Len(evs)].kind)
    THEN \E p \in PrintAt("L49", "error") :
            IF p.evs # <<>>
            THEN /\ raised' = raised \o evs \o p.evs
                 /\ out' = out \o shown \o p.shown
                 /\ pc' = "uncaught"
                 /\ UNCHANGED result
            ELSE \E q \in PrintAt("L51", "traceback") :
                    /\ raised' = raised \o evs \o q.evs
                    /\ out' = out \o shown \o p.shown \o q.shown
                    /\ IF q.evs = <<>>
                       THEN result' = "False" /\ pc' = "ret"
                       ELSE pc' = "uncaught" /\ UNCHANGED result
    ELSE /\ raised' = raised \o evs
         /\ out' = out \o shown
         /\ pc' = "uncaught"
         /\ UNCHANGED result

\* `last` is kept for as long as this run can still be compared with the
\* previous one: until it raises what the previous run did not raise
NoRaise == UNCHANGED <<raised, last>>

Raises(shown, evs) ==
    /\ Handle(shown, evs)
    /\ last' = IF last.ran /\ ~IsPrefix(raised', last.raised) THEN NoRun ELSE last

\* print(message); return False: lines 18-19 and 25-26
\* (faulty variant: return True)
ReturnTrue(at, message) ==
    \E p \in PrintAt(at, message) :
       IF p.evs = <<>>
       THEN out' = out \o p.shown /\ result' = "True" /\ pc' = "ret" /\ NoRaise
       ELSE Raises(p.shown, p.evs)
ReturnFalse(at, message) ==
    \E p \in PrintAt(at, message) :
       IF p.evs = <<>>
       THEN out' = out \o p.shown /\ result' = "False" /\ pc' = "ret" /\ NoRaise
       ELSE Raises(p.shown, p.evs)

\* sheets[0], tables[0]: lines 21 and 28
\* (faulty variant: index -1 instead of 0)
LastOf(s) == s[Len(s)]
FirstOf(s) == s[1]

(***************************************************************************)
(* The output file object f of line 31: a text layer that collects what    *)
(* f.write() is given until it has a chunk, over a buffered writer, over   *)
(* the file on disk.  A stream is [data, buf, pending]: the characters on  *)
(* disk, in the buffer, and in the text layer.  An operation gives         *)
(* [s, ok]: the stream after it, and whether it returned (ok) or raised    *)
(* OSError.                                                                *)
(* The disk has room for `quota` characters of the file.  A write to the   *)
(* disk takes all it is given when there is room for it, the part there    *)
(* is room for otherwise (a short write), and fails when there is no room  *)
(* at all.                                                                 *)
(***************************************************************************)
Stream == [data |-> file.data, buf |-> buf, pending |-> pending]

Rest(s, k) == SubSeq(s, k + 1, Len(s))

\* the number of characters of d that a write to the disk takes
Takes(s, d) ==
    IF quota = Unlimited \/ quota - Len(s.data) >= Len(d) THEN Len(d)
    ELSE quota - Len(s.data)

\* the buffer is written to the disk, in as many writes as it takes; when a
\* write fails, what was not written stays in the buffer
FlushBuf(s) ==
    LET n == Takes(s, s.buf)
    IN  [s |-> [s EXCEPT !.data = @ \o SubSeq(s.buf, 1, n), !.buf = Rest(s.buf, n)],
         ok |-> n = Len(s.buf)]

\* the buffer being empty, d is written to the disk for as long as what is
\* left of it is larger than the buffer, and the rest is put in the buffer;
\* when a write fails the rest of d is lost
RECURSIVE WriteLoop(_, _)
WriteLoop(s, d) ==
    IF Len(d) <= BufferSize THEN [s |-> [s EXCEPT !.buf = d], ok |-> TRUE]
    ELSE LET n == Takes(s, d)
         IN  IF n = 0 THEN [s |-> s, ok |-> FALSE]
             ELSE WriteLoop([s EXCEPT !.data = @ \o SubSeq(d, 1, n)], Rest(d, n))

\* the buffered writer is given d: d goes into the buffer when it fits, and
\* otherwise the buffer is flushed and d written
BufWrite(s, d) ==
    IF Len(d) <= BufferSize - Len(s.buf)
    THEN [s |-> [s EXCEPT !.buf = @ \o d], ok |-> TRUE]
    ELSE LET f == FlushBuf(s)
         IN  IF f.ok THEN WriteLoop(f.s, d) ELSE f

\* the text layer passes what it holds to the buffered writer
WriteFlush(s) ==
    IF s.pending = <<>> THEN [s |-> s, ok |-> TRUE]
    ELSE BufWrite([s EXCEPT !.pending = <<>>], s.pending)

\* f.write(r), as writer.writerow() of line 43 calls it with the record r:
\* the text layer first makes room for r, when it holds text and r would
\* make it more than a chunk, and takes r; it then passes on what it holds
\* when that is a chunk or more
TakeRecord(s, r) ==
    IF s.pending # <<>> /\ Len(s.pending) + Len(r) > ChunkSize
    THEN LET o == WriteFlush(s)
         IN  IF o.ok THEN [o EXCEPT !.s.pending = r] ELSE o
    ELSE [s |-> [s EXCEPT !.pending = @ \o r], ok |-> TRUE]

TextWrite(s, r) ==
    LET taken == TakeRecord(s, r)
    IN  IF taken.ok /\ Len(taken.s.pending) >= ChunkSize THEN WriteFlush(taken.s)
        ELSE taken

(***************************************************************************)
(* A SIGINT that arrives while f writes to the disk is raised as           *)
(* KeyboardInterrupt when that write has returned, with the characters it  *)
(* took on the disk.  These operators give the streams in which an         *)
(* operation can be left that way: what the operation had not yet put in   *)
(* the buffer is lost.                                                     *)
(***************************************************************************)
FlushBufInterrupted(s) ==
    IF Takes(s, s.buf) > 0 THEN {FlushBuf(s).s} ELSE {}

WriteLoopInterrupted(s, d) ==
    IF Len(d) > BufferSize /\ Takes(s, d) > 0
    THEN {[s EXCEPT !.data = @ \o SubSeq(d, 1, Takes(s, d))]}
    ELSE {}

BufWriteInterrupted(s, d) ==
    IF Len(d) <= BufferSize - Len(s.buf) THEN {}
    ELSE FlushBufInterrupted(s)
            \cup (IF FlushBuf(s).ok THEN WriteLoopInterrupted(FlushBuf(s).s, d) ELSE {})

WriteFlushInterrupted(s) ==
    IF s.pending = <<>> THEN {}
    ELSE BufWriteInterrupted([s EXCEPT !.pending = <<>>], s.pending)

TextWriteInterrupted(s, r) ==
    LET taken == TakeRecord(s, r)
    IN  (IF s.pending # <<>> /\ Len(s.pending) + Len(r) > ChunkSize
         THEN WriteFlushInterrupted(s) ELSE {})
            \cup (IF taken.ok /\ Len(taken.s.pending) >= ChunkSize
                  THEN WriteFlushInterrupted(taken.s) ELSE {})

\* f.close(): what the text layer and the buffer hold is written to the
\* disk, as far as there is room; nothing is kept
CloseStream(s) ==
    LET held == s.buf \o s.pending
        n == Takes(s, held)
    IN  [s |-> [data |-> s.data \o SubSeq(held, 1, n), buf |-> <<>>, pending |-> <<>>],
         ok |-> n = Len(held)]

\* f.close() interrupted while the text layer passes on what it holds: that
\* text is lost, and the close goes on to write what the buffer holds
CloseStreamInterrupted(s) ==
    {CloseStream(t) : t \in WriteFlushInterrupted(s)}

(***************************************************************************)
(* convert_numbers_to_csv, lines 9-52.                                     *)
(***************************************************************************)

\* line 13: doc = Document(numbers_file)
\* (faulty variant: the output file opened before the document is read)
OpenDocumentAndOutput ==
    /\ pc = "L13"
    /\ file' = [exists |-> TRUE, data |-> <<>>]
    /\ \/ pc' = "L16" /\ NoRaise /\ UNCHANGED <<out, result>>
       \/ \E kind \in Kinds : Raises(<<>>, <<Ev("L13", kind)>>)
    /\ UNCHANGED <<doc, pending, buf, quota, pre, sheet, table, i, exitcode>>
OpenDocument ==
    /\ pc = "L13"
    /\ \/ pc' = "L16" /\ NoRaise /\ UNCHANGED <<out, result>>
       \/ \E kind \in Kinds : Raises(<<>>, <<Ev("L13", kind)>>)
    /\ UNCHANGED <<doc, file, pending, buf, quota, pre, sheet, table, i, exitcode>>

\* lines 16-19: sheets = doc.sheets; if not sheets: ...
GetSheets ==
    /\ pc = "L16"
    /\ \/ \E kind \in Kinds : Raises(<<>>, <<Ev("L16", kind)>>)
       \/ doc = <<>> /\ ReturnFalse("L18", "no_sheets")
       \/ doc # <<>> /\ pc' = "L21" /\ NoRaise /\ UNCHANGED <<out, result>>
    /\ UNCHANGED <<doc, file, pending, buf, quota, pre, sheet, table, i, exitcode>>

\* lines 21-28: sheet = sheets[0]; tables = sheet.tables; if not tables: ...;
\* table = tables[0]
GetTables ==
    /\ pc = "L21"
    /\ sheet' = FirstOf(doc)
    /\ \/ (\E kind \in Kinds : Raises(<<>>, <<Ev("L22", kind)>>)) /\ UNCHANGED table
       \/ sheet' = <<>> /\ ReturnFalse("L25", "no_tables") /\ UNCHANGED table
       \/ /\ sheet' # <<>>
          /\ table' = FirstOf(sheet')
          /\ pc' = "L31"
          /\ NoRaise
          /\ UNCHANGED <<out, result>>
    /\ UNCHANGED <<doc, file, pending, buf, quota, pre, i, exitcode>>

\* line 31: open(csv_file, 'w', ...) creates the file or truncates it; it
\* raises before it has touched the file, or is left by KeyboardInterrupt
\* before that or after it
\* (faulty variant: mode 'a' instead of 'w')
OpenOutputAppending ==
    /\ pc = "L31"
    /\ \/ /\ file' = [exists |-> TRUE, data |-> file.data]
          /\ pc' = "L35"
          /\ NoRaise
          /\ UNCHANGED <<out, result>>
       \/ (\E kind \in IOKinds : Raises(<<>>, <<Ev("L31", kind)>>)) /\ UNCHANGED file
       \/ /\ file' = [exists |-> TRUE, data |-> file.data]
          /\ Raises(<<>>, <<Interrupted("L31", Len(file.data))>>)
    /\ UNCHANGED <<doc, pending, buf, quota, pre, sheet, table, i, exitcode>>
OpenOutput ==
    /\ pc = "L31"
    /\ \/ /\ file' = [exists |-> TRUE, data |-> <<>>]
          /\ pc' = "L35"
          /\ NoRaise
          /\ UNCHANGED <<out, result>>
       \/ (\E kind \in IOKinds : Raises(<<>>, <<Ev("L31", kind)>>)) /\ UNCHANGED file
       \/ /\ file' = [exists |-> TRUE, data |-> <<>>]
          /\ Raises(<<>>, <<Interrupted("L31", 0)>>)
    /\ UNCHANGED <<doc, pending, buf, quota, pre, sheet, table, i, exitcode>>

\* the exit of the with block of line 31 closes f, whose stream is s.  evs
\* are the exceptions that made control leave the block, if any; the failure
\* of the close is raised in their place, and so is a KeyboardInterrupt that
\* arrives as the close returns.
\* (faulty variant: what f holds is dropped when an exception leaves the block)
CloseDroppingBuffer(s, evs) ==
    /\ pending' = <<>>
    /\ buf' = <<>>
    /\ \/ /\ evs # <<>>
          /\ file' = [file EXCEPT !.data = s.data]
          /\ Raises(<<>>, evs)
       \/ LET o == CloseStream(s)
          IN  /\ file' = [file EXCEPT !.data = o.s.data]
              /\ IF o.ok
                 THEN evs = <<>> /\ pc' = "L45" /\ NoRaise /\ UNCHANGED <<out, result>>
                 ELSE Raises(<<>>, Append(evs, WriteFailed("close", Len(o.s.data))))
Close(s, evs) ==
    /\ pending' = <<>>
    /\ buf' = <<>>
    /\ \/ LET o == CloseStream(s)
          IN  /\ file' = [file EXCEPT !.data = o.s.data]
              /\ \/ IF ~o.ok
                    THEN Raises(<<>>, Append(evs, WriteFailed("close", Len(o.s.data))))
                    ELSE IF evs # <<>> THEN Raises(<<>>, evs)
                    ELSE pc' = "L45" /\ NoRaise /\ UNCHANGED <<out, result>>
                 \/ o.ok /\ Raises(<<>>, Append(evs, Ev("close", KeyboardInterrupt)))
       \/ \E o \in CloseStreamInterrupted(s) :
             /\ file' = [file EXCEPT !.data = o.s.data]
             /\ Raises(<<>>, Append(evs, IF o.ok THEN Interrupted("close", Len(o.s.data))
                                         ELSE WriteFailed("close", Len(o.s.data))))

\* lines 35-43, one turn of the loop.  The iterator yields the next row and
\* its record is written: f takes it, or a write to the disk that f makes
\* for it fails, which leaves the with block; or f takes it and writerow is
\* left by KeyboardInterrupt; or a write to the disk that f makes for it is
\* interrupted, which leaves the with block.  Or the iterator is exhausted and the with
\* block is left.  Or the iterator (L35), a cell's value (L38) or writerow
\* (L43) raises before anything is written and the with block is left by
\* that exception.
WriteRows ==
    /\ pc = "L35"
    /\ \/ /\ i < Len(table)
          /\ LET o == TextWrite(Stream, WriteRow(RowData(table[i + 1])))
             IN  IF o.ok
                 THEN \/ /\ file' = [file EXCEPT !.data = o.s.data]
                         /\ buf' = o.s.buf
                         /\ pending' = o.s.pending
                         /\ i' = i + 1
                         /\ NoRaise
                         /\ UNCHANGED <<pc, out, result>>
                      \/ /\ i' = i + 1
                         /\ Close(o.s, <<Ev("L43", KeyboardInterrupt)>>)
                 ELSE /\ Close(o.s, <<WriteFailed("L43", Len(o.s.data))>>)
                      /\ UNCHANGED i
       \/ /\ i < Len(table)
          /\ \E t \in TextWriteInterrupted(Stream, WriteRow(RowData(table[i + 1]))) :
                Close(t, <<Interrupted("L43", Len(t.data))>>)
          /\ UNCHANGED i
       \/ /\ i < Len(table)
          /\ \/ \E at \in {"L35", "L38"}, kind \in Kinds :
                   /\ at = "L38" => table[i + 1] # <<>>
                   /\ Close(Stream, <<Ev(at, kind)>>)
             \/ \E kind \in IOKinds : Close(Stream, <<Ev("L43", kind)>>)
          /\ UNCHANGED i
       \/ /\ i = Len(table)
          /\ \/ Close(Stream, <<>>)
             \/ \E kind \in Kinds : Close(Stream, <<Ev("L35", kind)>>)
          /\ UNCHANGED i
    /\ UNCHANGED <<doc, quota, pre, sheet, table, exitcode>>

\* lines 45-46: print(...); return True
Success ==
    /\ pc = "L45"
    /\ \E p \in PrintAt("L45", "success") :
          IF p.evs = <<>>
          THEN out' = out \o p.shown /\ result' = "True" /\ pc' = "ret" /\ NoRaise
          ELSE Raises(p.shown, p.evs)
    /\ UNCHANGED <<doc, file, pending, buf, quota, pre, sheet, table, i, exitcode>>

(***************************************************************************)
(* __main__, lines 54-61, and the end of the process.                      *)
(***************************************************************************)
ExitCode(r) == IF r = "True" THEN 0 ELSE 1

\* the interpreter ends with `status` after flushing stdout and stderr; when
\* something was written to them (wrote) the flush may fail, and the status
\* is then 120; a SIGINT that arrives while the interpreter shuts down kills
\* the process (status -2)
Finalize(status, wrote) == {status, -2} \cup (IF wrote THEN {120} ELSE {})

\* lines 58-61: sys.exit(0) or sys.exit(1)
Exit ==
    /\ pc = "ret"
    /\ exitcode' \in Finalize(ExitCode(result), out # <<>>)
    /\ pc' = "exited"
    /\ UNCHANGED <<doc, file, pending, buf, quota, pre, sheet, table, i, out, result, raised, last>>

\* the status an uncaught SystemExit(arg) asks for: none is 0, an integer
\* its low byte, anything else is printed to stderr and gives 1
ExitStatus(arg) ==
    CASE arg.type = "none" -> 0
      [] arg.type = "int" -> arg.n % 256
      [] OTHER -> 1

\* the interpreter writes to stderr when it ends by this exception
WritesStderr(kind) ==
    IF kind.class = "SystemExit" THEN kind.arg.type = "str" ELSE TRUE

\* the status of a process ended by an exception that nothing handles: the
\* one SystemExit asks for, death by SIGINT (-2) after KeyboardInterrupt,
\* and 1 with a traceback otherwise
UncaughtStatus(kind) ==
    CASE kind.class = "SystemExit" -> ExitStatus(kind.arg)
      [] kind.class = "KeyboardInterrupt" -> -2
      [] OTHER -> 1

\* line 58: the call of convert_numbers_to_csv is left by an exception,
\* which __main__ does not handle
Crash ==
    /\ pc = "uncaught"
    /\ LET kind == raised[Len(raised)].kind
       IN  exitcode' \in
               IF kind.class = "KeyboardInterrupt" THEN {UncaughtStatus(kind)}
               ELSE Finalize(UncaughtStatus(kind), out # <<>> \/ WritesStderr(kind))
    /\ pc' = "exited"
    /\ UNCHANGED <<doc, file, pending, buf, quota, pre, sheet, table, i, out, result, raised, last>>

Next ==
    \/ OpenDocument
    \/ GetSheets
    \/ GetTables
    \/ OpenOutput
    \/ WriteRows
    \/ Success
    \/ Exit
    \/ Crash

Spec == Init /\ [][Next]_vars

\* the script run on the documents that differ in sheets, tables and rows,
\* and on those with a long record
InitLong == Start(StructDocs \cup ShapeDocs, SmallQuotas) \/ Start(LongDocs, LongQuotas)
SpecLong == InitLong /\ [][Next]_vars

(***************************************************************************)
(* The script run again, on the same or on another document, after the     *)
(* file at csv_file has been removed or replaced.  `last` keeps of the     *)
(* previous run its outcome and the part of its document made of the       *)
(* first table of the first sheet.                                         *)
(***************************************************************************)
FirstTableOnly(d) ==
    IF d = <<>> THEN <<>>
    ELSE IF d[1] = <<>> THEN << <<>> >>
    ELSE << <<d[1][1]>> >>

InvokeAgain(d, f, q) ==
    /\ pc = "exited"
    /\ last' = [ran |-> TRUE, first |-> FirstTableOnly(doc), unchanged |-> (d = doc),
                pre |-> pre, raised |-> raised, i |-> i, result |-> result,
                file |-> file]
    /\ doc' = d
    /\ file' = f
    /\ pending' = <<>>
    /\ buf' = <<>>
    /\ quota' = q
    /\ pre' = f
    /\ pc' = "L13"
    /\ sheet' = <<>>
    /\ table' = <<>>
    /\ i' = 0
    /\ out' = <<>>
    /\ result' = "pending"
    /\ raised' = <<>>
    /\ exitcode' = -1

InitAgain == Start(StructDocs, AgainQuotas)

NextAgain ==
    \/ Next
    \/ \E d \in StructDocs, f \in PreFiles, q \in AgainQuotas : InvokeAgain(d, f, q)

SpecAgain == InitAgain /\ [][NextAgain]_vars

(***************************************************************************)
(* Properties.                                                             *)
(***************************************************************************)
\* the call of convert_numbers_to_csv is over
Done == pc \in {"ret", "uncaught", "exited"}
\* convert_numbers_to_csv has returned a value
Returned == result # "pending"

\* the document has a first sheet and that sheet a first table
HasFirstTable == doc # <<>> /\ doc[1] # <<>>
FirstTable == doc[1][1]

\* an exception was raised at one of the lines S
RaisedAt(S) == \E k \in 1..Len(raised) : raised[k].at \in S
\* the first exception of the run was raised at one of the lines S
FirstRaisedAt(S) == raised # <<>> /\ raised[1].at \in S

\* open() of line 31 was interrupted after it had created or truncated the file
OpenInterrupted == FirstRaisedAt({"L31"}) /\ raised[1].disk >= 0
\* the run ended before open() of line 31 had touched the output file
FailedBeforeOpen ==
    \/ FirstRaisedAt({"L13", "L16", "L18", "L22", "L25"})
    \/ FirstRaisedAt({"L31"}) /\ ~OpenInterrupted
    \/ Done /\ ~HasFirstTable
\* the document was opened and a first sheet and a first table were found:
\* the run has got to line 31
FoundTable ==
    /\ HasFirstTable
    /\ pc \notin {"L13", "L16", "L21"}
    /\ ~FirstRaisedAt({"L13", "L16", "L22"})
\* this run has opened the output file
Opened == FoundTable /\ pc # "L31" /\ ~FirstRaisedAt({"L31"})
\* this run has created or truncated the output file
Truncated == Opened \/ OpenInterrupted
\* an exception was raised in the with block of line 31 or at its exit
RaisedAfterOpen == FirstRaisedAt({"L35", "L38", "L43", "close"})
\* every row was written and the file was closed with its buffer flushed
Written ==
    /\ HasFirstTable
    /\ pc \in {"L45", "ret", "uncaught", "exited"}
    /\ raised = <<>> \/ FirstRaisedAt({"L45"})

\* the records written for the first n rows of table t
RECURSIVE Records(_, _)
Records(t, n) ==
    IF n = 0 THEN <<>> ELSE Records(t, n - 1) \o WriteRow(RowData(t[n]))

AllText(t) == \A r \in 1..Len(t) : \A c \in 1..Len(t[r]) : t[r][c].kind = "text"

\* C1: when the document has a first sheet with a first table and no call
\* raises, convert_numbers_to_csv returns True; once the rows are written
\* and the file is closed, the output file, read as CSV, holds one record per
\* row of the first table, in order, each with one field per cell of the row,
\* in order.
C1_RowsAndCellsMirrored ==
    /\ (Done /\ raised = <<>> /\ HasFirstTable) => result = "True" /\ Written
    /\ Written =>
          /\ file.exists
          /\ buf = <<>> /\ pending = <<>>
          /\ LET recs == ParseCSV(file.data)
             IN  /\ Len(recs) = Len(FirstTable)
                 /\ \A r \in 1..Len(FirstTable) :
                       /\ Len(recs[r]) = Len(FirstTable[r])
                       /\ \A c \in 1..Len(FirstTable[r]) :
                             recs[r][c] = CellText(FirstTable[r][c])

C1_Witness ==
    /\ pc = "exited" /\ raised = <<>> /\ HasFirstTable /\ result = "True"
    /\ Len(FirstTable) = 2
    /\ Len(FirstTable[1]) = 2 /\ FirstTable[1][1] # FirstTable[1][2]
    /\ Len(FirstTable[2]) = 1
    /\ Len(ParseCSV(file.data)) = 2

\* C2 as stated: the output file is created or overwritten only if the
\* document was opened, a first sheet and a first table were found and the
\* table's row sequence was produced; when one of these fails the file is as
\* it was before the run.
C2_Original ==
    (FailedBeforeOpen \/ (FirstRaisedAt({"L35"}) /\ i = 0)) => file = pre

\* C2 amended: the output file is created or overwritten only after the
\* document was opened and a first sheet and a first table were found; when
\* one of these fails the file is as it was before the run.
C2_WrittenOnlyAfterTableFound ==
    /\ file # pre => FoundTable /\ Truncated /\ table = FirstTable
    /\ FailedBeforeOpen => file = pre

C2_Witness ==
    /\ pc = "exited" /\ FirstRaisedAt({"L35"}) /\ i = 0 /\ table # <<>>
    /\ pre = OldFile /\ file = [exists |-> TRUE, data |-> <<>>]

\* C3: when the document has no sheet, or its first sheet no table, and no
\* call raises, convert_numbers_to_csv prints the message of that case and
\* nothing else and returns False; and whatever is raised, the output file
\* is as it was before the run.
C3_NoSheetsNoTables ==
    /\ (Done /\ doc = <<>> /\ raised = <<>>) =>
          out = <<"no_sheets">> /\ result = "False"
    /\ (Done /\ doc # <<>> /\ doc[1] = <<>> /\ raised = <<>>) =>
          out = <<"no_tables">> /\ result = "False"
    /\ ~HasFirstTable => file = pre /\ buf = <<>> /\ pending = <<>>

C3_Witness ==
    /\ pc = "exited" /\ doc # <<>> /\ doc[1] = <<>> /\ out = <<"no_tables">>
    /\ pre = OldFile /\ file = OldFile

\* C4: whatever raises in convert_numbers_to_csv is handled there: the error
\* is printed, False is returned, and no exception leaves the function.
C4_ErrorsContained ==
    /\ pc # "uncaught"
    /\ raised # <<>> =>
          Returned /\ result = "False" /\ out = <<"error", "traceback">>

\* Document() has raised an Exception, line 48 has caught it, and the print
\* of line 49 has raised another, which leaves the function
C4_Propagates ==
    /\ pc = "uncaught"
    /\ raised = <<Ev("L13", Exception), Ev("L49", Exception)>>
    /\ ~Returned

\* C5: the process exits with 0 exactly when the conversion succeeded (all
\* rows written, success reported) and with 1 on every failure (no sheets, no
\* tables, any exception); there is no other exit code.
C5_ExitCode ==
    pc = "exited" =>
        /\ exitcode \in {0, 1}
        /\ exitcode = 0 <=>
              /\ out = <<"success">> /\ raised = <<>> /\ HasFirstTable
              /\ file = [exists |-> TRUE, data |-> Records(FirstTable, Len(FirstTable))]
        /\ (raised # <<>> \/ ~HasFirstTable) => exitcode = 1

\* cell.value of the second row has raised SystemExit(3), which line 48 does
\* not catch: the process ends with the status SystemExit asks for
C5_OtherExitCode ==
    /\ pc = "exited" /\ exitcode = 3
    /\ raised = <<Ev("L38", SystemExit(IntArg(3)))>> /\ i = 1

\* C6: the field written for a cell without a value is the empty string, and
\* the field written for a cell with a value is str() of the value; this
\* holds of the records handed to the file while the loop runs and of the
\* file once it is written.
C6_AbsentIsEmpty ==
    ((pc = "L35" /\ Opened) \/ Written) =>
        LET recs == ParseCSV(file.data \o buf \o pending)
        IN  /\ i <= Len(recs)
            /\ \A r \in 1..i : \A c \in 1..Len(FirstTable[r]) :
                  /\ FirstTable[r][c] = None => recs[r][c] = <<>>
                  /\ FirstTable[r][c] # None => recs[r][c] = Str(FirstTable[r][c])

C6_Witness ==
    /\ pc = "exited" /\ result = "True" /\ HasFirstTable
    /\ FirstTable = << <<None, Bool(TRUE)>> >>
    /\ ParseCSV(file.data) = << << <<>>, <<"T", "r", "u", "e">> >> >>

\* C7: for a table of text cells, reading the written file with the CSV
\* reader gives back the rows and the text of every cell.
C7_RoundTrip ==
    (Written /\ AllText(FirstTable)) =>
        ParseCSV(file.data) =
            [r \in 1..Len(FirstTable) |->
                [c \in 1..Len(FirstTable[r]) |-> FirstTable[r][c].txt]]

C7_Witness ==
    /\ pc = "exited" /\ result = "True" /\ HasFirstTable
    /\ FirstTable = << <<Txt(<<"\"", ",", "\n">>), Txt(<<"a">>)>> >>

\* the previous run had the same exceptions raised at the same places
SameRaises == last.ran /\ last.raised = raised /\ last.i = i

\* C8 as stated: two runs on the same document, with the same exceptions
\* raised, return the same value and leave the same output file, whatever the
\* file held before.
C8_Original ==
    (pc = "exited" /\ SameRaises /\ last.unchanged) =>
        result = last.result /\ file = last.file

\* C8 amended: two runs on the same document, with the same exceptions raised,
\* return the same value; they leave the same output file, whatever the file
\* held before, when they get as far as creating or truncating it at line 31,
\* and otherwise each leaves the file as it found it.
C8_Deterministic ==
    (pc = "exited" /\ SameRaises /\ last.unchanged) =>
        /\ result = last.result
        /\ IF Truncated THEN file = last.file
           ELSE file = pre /\ last.file = last.pre

C8_Witness ==
    /\ pc = "exited" /\ SameRaises /\ last.unchanged
    /\ result = "True" /\ last.pre # pre /\ file = last.file

\* C9: the return value and the output file depend on no sheet but the first
\* and on no table but the first of the first sheet: a run on a document with
\* the same first table of the first sheet (same exceptions, same file before)
\* ends the same; and a first sheet without tables gives "no tables" whatever
\* the later sheets hold.
C9_OnlyFirstTable ==
    /\ (pc = "exited" /\ SameRaises /\ last.pre = pre
            /\ last.first = FirstTableOnly(doc)) =>
          result = last.result /\ file = last.file
    /\ (pc = "L31" \/ Opened) => table = FirstTable
    /\ (Done /\ doc # <<>> /\ doc[1] = <<>> /\ ~RaisedAt({"L13", "L16", "L22", "L25"})) =>
          out = <<"no_tables">> /\ result = "False"

C9_Witness ==
    /\ pc = "exited" /\ SameRaises /\ last.pre = pre /\ ~last.unchanged
    /\ last.first = FirstTableOnly(doc)
    /\ Len(doc) = 2 /\ Len(doc[1]) = 2 /\ doc[1][1] # doc[1][2]
    /\ result = "True"

\* a write to the disk has failed or was interrupted at one of the lines S
WriteCutAt(S) == \E k \in 1..Len(raised) : raised[k].at \in S /\ raised[k].disk >= 0
\* a write to the disk has failed (OSError)
WriteHasFailed ==
    \E k \in 1..Len(raised) : raised[k].disk >= 0 /\ raised[k].kind = Exception

=============================================================================
